---- MODULE Spec2Model ----
(***************************************************************************)
(* Model of src/lexer.rs: the Lexer struct (input, pos, tokens) and its    *)
(* lex loop.  Bytes are their ASCII codes, positions are the 0-based byte  *)
(* offsets of the Rust code (input[pos] in Rust is input[pos + 1] here).   *)
(* One action per helper called from the match in Lexer::lex, one for the  *)
(* error arm, one for the loop exit, one for the call of lex itself.       *)
(***************************************************************************)
EXTENDS Integers, Sequences, FiniteSets, TLC

VARIABLES input, pos, tokens, pc, returned, iters, scans

vars == <<input, pos, tokens, pc, returned, iters, scans>>

(***************************************************************************)
(* Bounds of the model.                                                    *)
(***************************************************************************)
\* longest input drawn exhaustively from Alphabet
MaxLen == 4
\* most chunks of KeywordChunks concatenated into one input
MaxChunks == 3
\* most calls of lex on one Lexer instance
MaxCalls == 2
\* most Lexer instances constructed, one after the other, from the same input
MaxLexers == 2

(***************************************************************************)
(* Byte classes, as the match arms and the run closures spell them.        *)
(***************************************************************************)
\* b'0'..=b'9'
DigitLead == 48..57
\* b'a'..=b'z' | b'A'..=b'Z' | b'_'
IdentifierLead == (97..122) \cup (65..90) \cup {95}
\* b' ' | b'\n' | b'\t'
SpaceLead == {32, 10, 9}
\* |b| b"0123456789".contains(&b)
DigitRun == {48, 49, 50, 51, 52, 53, 54, 55, 56, 57}
\* |b| b.is_ascii_alphanumeric() || b == b'_'
IdentifierRun == (48..57) \cup (65..90) \cup (97..122) \cup {95}
\* |b| b" \n\t".contains(&b)
SpaceRun == {32, 10, 9}
\* + - * / ( ) ; =
OperatorBytes == {43, 45, 42, 47, 40, 41, 59, 61}

(***************************************************************************)
(* Tokens and errors: Annotation<TokenKind> / Annotation<LexErrorKind>.    *)
(***************************************************************************)
new_token(token_kind, start, end) == token_kind @@ [loc |-> <<start, end>>]

\* a payload-free variant of TokenKind: Plus, Minus, ..., Int, Return
TokenKind(name) == [kind |-> name]
Number(n) == [kind |-> "Number", num |-> n]
Identifier(ident) == [kind |-> "Identifier", name |-> ident]

invalid_char(c, loc) == [kind |-> "Err", error |-> "InvalidChar", char |-> c, loc |-> loc]
eof(loc) == [kind |-> "Err", error |-> "Eof", loc |-> loc]

\* mutant: the table is process-wide state that the first scan uses up
reserve_keywords_once ==
    [k \in IF scans = <<>> THEN {<<105, 110, 116>>, <<114, 101, 116, 117, 114, 110>>} ELSE {} |->
        IF k = <<105, 110, 116>> THEN TokenKind("Int") ELSE TokenKind("Return")]

\* the keyword table: "int" and "return"
reserve_keywords ==
    [k \in {<<105, 110, 116>>, <<114, 101, 116, 117, 114, 110>>} |->
        IF k = <<105, 110, 116>> THEN TokenKind("Int") ELSE TokenKind("Return")]

(***************************************************************************)
(* str::parse::<usize>() on a non-empty run of ASCII digits: the base-10   *)
(* value, or an overflow error when the value exceeds usize::MAX.          *)
(***************************************************************************)
\* usize::MAX = 2^64 - 1 (64-bit target) in decimal digits
UsizeMaxDigits == <<1, 8, 4, 4, 6, 7, 4, 4, 0, 7, 3, 7, 0, 9, 5, 5, 1, 6, 1, 5>>

RECURSIVE StripZeros(_)
StripZeros(run) ==
    IF Len(run) > 0 /\ run[1] = 48 THEN StripZeros(Tail(run)) ELSE run

RECURSIVE DigitsGreater(_, _)
\* a > b for two digit strings of the same length
DigitsGreater(a, b) ==
    IF Len(a) = 0 THEN FALSE
    ELSE IF a[1] # b[1] THEN a[1] > b[1]
    ELSE DigitsGreater(Tail(a), Tail(b))

ParseOverflows(run) ==
    LET d == StripZeros(run) IN
        \/ Len(d) > Len(UsizeMaxDigits)
        \/ /\ Len(d) = Len(UsizeMaxDigits)
           /\ DigitsGreater([i \in 1..Len(d) |-> d[i] - 48], UsizeMaxDigits)

RECURSIVE ParseValue_radix16(_, _)
\* mutant: the digits are read in radix 16
ParseValue_radix16(run, acc) ==
    IF Len(run) = 0 THEN acc
    ELSE ParseValue_radix16(Tail(run), acc * 16 + (run[1] - 48))

RECURSIVE ParseValue(_, _)
\* result = result * 10 + digit, left to right
ParseValue(run, acc) ==
    IF Len(run) = 0 THEN acc
    ELSE ParseValue(Tail(run), acc * 10 + (run[1] - 48))

(***************************************************************************)
(* The Lexer methods, as functions of the struct                           *)
(* self = [input, pos, tokens].                                            *)
(***************************************************************************)
Push(self, tok, newpos) ==
    [self EXCEPT !.tokens = Append(@, tok), !.pos = newpos]

lex_plus(self) == Push(self, new_token(TokenKind("Plus"), self.pos, self.pos + 1), self.pos + 1)
lex_minus(self) == Push(self, new_token(TokenKind("Minus"), self.pos, self.pos + 1), self.pos + 1)
lex_asterisk(self) == Push(self, new_token(TokenKind("Asterisk"), self.pos, self.pos + 1), self.pos + 1)
lex_slash(self) == Push(self, new_token(TokenKind("Slash"), self.pos, self.pos + 1), self.pos + 1)
lex_lparen(self) == Push(self, new_token(TokenKind("LParen"), self.pos, self.pos + 1), self.pos + 1)
lex_rparen(self) == Push(self, new_token(TokenKind("RParen"), self.pos, self.pos + 1), self.pos + 1)
lex_semicolon(self) == Push(self, new_token(TokenKind("Semicolon"), self.pos, self.pos + 1), self.pos + 1)
\* mutant: "==" is combined into one token
lex_assignment_combining(self) ==
    LET end == IF self.pos + 1 < Len(self.input) /\ self.input[self.pos + 2] = 61
               THEN self.pos + 2
               ELSE self.pos + 1
    IN  Push(self, new_token(TokenKind("Assignment"), self.pos, end), end)

lex_assignment(self) == Push(self, new_token(TokenKind("Assignment"), self.pos, self.pos + 1), self.pos + 1)

RECURSIVE RunEnd(_, _, _)
\* while pos < self.input.len() && f(self.input[pos]) { pos += 1 }
RunEnd(in, p, f) ==
    IF p < Len(in) /\ in[p + 1] \in f THEN RunEnd(in, p + 1, f) ELSE p

\* mutant: `if` for `while`, the run stops after its first byte
recognize_single_char(self, f) ==
    IF self.pos < Len(self.input) /\ self.input[self.pos + 1] \in f
    THEN self.pos + 1
    ELSE self.pos

recognize_multiple_char(self, f) == RunEnd(self.input, self.pos, f)

\* &self.input[start..end]
Slice(in, start, end) == SubSeq(in, start + 1, end)

\* from_utf8(..).unwrap().parse().unwrap() panics on overflow
lex_number_panics(self) ==
    ParseOverflows(Slice(self.input, self.pos, recognize_multiple_char(self, DigitRun)))

lex_number(self) ==
    LET start == self.pos
        end == recognize_multiple_char(self, DigitRun)
        num == ParseValue(Slice(self.input, start, end), 0)
    IN  Push(self, new_token(Number(num), start, end), end)

\* mutant: the keyword is looked up as a prefix of the run
lex_identifier_prefix(self, keywords) ==
    LET start == self.pos
        end == recognize_multiple_char(self, IdentifierRun)
        identifier == Slice(self.input, start, end)
        found == {k \in DOMAIN keywords :
                     Len(k) <= Len(identifier) /\ SubSeq(identifier, 1, Len(k)) = k}
    IN  IF found # {}
        THEN Push(self, new_token(keywords[CHOOSE k \in found : TRUE], start, end), end)
        ELSE Push(self, new_token(Identifier(identifier), start, end), end)

\* mutant: the text of the run is cut one byte short
lex_identifier_short(self, keywords) ==
    LET start == self.pos
        end == recognize_multiple_char(self, IdentifierRun)
        identifier == Slice(self.input, start, end - 1)
    IN  IF identifier \in DOMAIN keywords
        THEN Push(self, new_token(keywords[identifier], start, end), end)
        ELSE Push(self, new_token(Identifier(identifier), start, end), end)

lex_identifier(self, keywords) ==
    LET start == self.pos
        end == recognize_multiple_char(self, IdentifierRun)
        identifier == Slice(self.input, start, end)
    IN  IF identifier \in DOMAIN keywords
        THEN Push(self, new_token(keywords[identifier], start, end), end)
        ELSE Push(self, new_token(Identifier(identifier), start, end), end)

\* mutant: the byte that ends the whitespace run is skipped with it
skip_spaces_and_next(self) ==
    LET end == recognize_multiple_char(self, SpaceRun) IN
    [self EXCEPT !.pos = IF end < Len(self.input) THEN end + 1 ELSE end]

skip_spaces(self) ==
    [self EXCEPT !.pos = recognize_multiple_char(self, SpaceRun)]

\* mutant: the location is counted from 1
lex_error_one_based(self) ==
    invalid_char(self.input[self.pos + 1], <<self.pos + 1, self.pos + 2>>)

\* the fall-through arm: Err(LexError::invalid_char(b as char, Loc(pos, pos + 1)))
lex_error(self) ==
    invalid_char(self.input[self.pos + 1], <<self.pos, self.pos + 1>>)

\* mutant: an input without any token is reported as unexpected end of input
lex_ok_or_eof(self) ==
    IF self.tokens = <<>>
    THEN eof(<<self.pos, self.pos>>)
    ELSE [kind |-> "Ok", tokens |-> self.tokens]

\* Ok(&self.tokens)
lex_ok(self) == [kind |-> "Ok", tokens |-> self.tokens]

\* the arm of the match in lex that the byte b selects
Arm(b) ==
    CASE b = 43 -> "lex_plus"
      [] b = 45 -> "lex_minus"
      [] b = 42 -> "lex_asterisk"
      [] b = 47 -> "lex_slash"
      [] b = 40 -> "lex_lparen"
      [] b = 41 -> "lex_rparen"
      [] b \in DigitLead -> "lex_number"
      [] b \in IdentifierLead -> "lex_identifier"
      [] b = 59 -> "lex_semicolon"
      [] b = 61 -> "lex_assignment"
      [] b \in SpaceLead -> "skip_spaces"
      [] OTHER -> "invalid_char"

\* the helper an arm calls, applied to the struct
Dispatch(self) ==
    LET arm == Arm(self.input[self.pos + 1]) IN
    CASE arm = "lex_plus" -> lex_plus(self)
      [] arm = "lex_minus" -> lex_minus(self)
      [] arm = "lex_asterisk" -> lex_asterisk(self)
      [] arm = "lex_slash" -> lex_slash(self)
      [] arm = "lex_lparen" -> lex_lparen(self)
      [] arm = "lex_rparen" -> lex_rparen(self)
      [] arm = "lex_number" -> lex_number(self)
      [] arm = "lex_identifier" -> lex_identifier(self, reserve_keywords)
      [] arm = "lex_semicolon" -> lex_semicolon(self)
      [] arm = "lex_assignment" -> lex_assignment(self)
      [] arm = "skip_spaces" -> skip_spaces(self)

Panic == [kind |-> "Panic"]

RECURSIVE lex(_)
\* the whole of Lexer::lex as a function of the struct: the value it returns
\* (or the panic that ends it) and the struct it leaves behind
lex(self) ==
    IF self.pos < Len(self.input)
    THEN LET arm == Arm(self.input[self.pos + 1]) IN
         IF arm = "invalid_char" THEN [result |-> lex_error(self), self |-> self]
         ELSE IF arm = "lex_number" /\ lex_number_panics(self)
              THEN [result |-> Panic, self |-> self]
              ELSE lex(Dispatch(self))
    ELSE [result |-> lex_ok(self), self |-> self]

\* Lexer::new(input)
new(in) == [input |-> in, pos |-> 0, tokens |-> <<>>]

(***************************************************************************)
(* The inputs of the model.  str::as_bytes maps each character of an ASCII *)
(* text to its code.                                                       *)
(***************************************************************************)
AsciiTable ==
    <<" ", "!", "dquote", "#", "$", "%", "&", "'", "(", ")", "*", "+", ",", "-", ".", "/",
      "0", "1", "2", "3", "4", "5", "6", "7", "8", "9", ":", ";", "<", "=", ">", "?",
      "@", "A", "B", "C", "D", "E", "F", "G", "H", "I", "J", "K", "L", "M", "N", "O",
      "P", "Q", "R", "S", "T", "U", "V", "W", "X", "Y", "Z", "[", "backslash", "]", "^", "_",
      "backtick", "a", "b", "c", "d", "e", "f", "g", "h", "i", "j", "k", "l", "m", "n", "o",
      "p", "q", "r", "s", "t", "u", "v", "w", "x", "y", "z", "{", "|", "}", "~">>

Ord(c) ==
    IF c = "\n" THEN 10
    ELSE IF c = "\t" THEN 9
    ELSE 31 + CHOOSE i \in 1..Len(AsciiTable) : AsciiTable[i] = c

as_bytes(str) == [i \in 1..Len(str) |-> Ord(str[i])]

\* the bytes the exhaustive inputs are drawn from: + = 0 9 a Z _ space \n $
Alphabet == {43, 61, 48, 57, 97, 90, 95, 32, 10, 36}

RECURSIVE SeqsUpTo(_, _)
SeqsUpTo(S, n) ==
    IF n = 0 THEN {<<>>}
    ELSE LET shorter == SeqsUpTo(S, n - 1) IN
         shorter \cup {Append(s, b) : s \in {t \in shorter : Len(t) = n - 1}, b \in S}

ShortInputs == SeqsUpTo(Alphabet, MaxLen)

\* pieces concatenated into inputs around the keywords
KeywordChunks ==
    { as_bytes(<<"i", "n", "t">>), as_bytes(<<"r", "e", "t", "u", "r", "n">>),
      as_bytes(<<"i">>), as_bytes(<<"n">>), as_bytes(<<"I">>), as_bytes(<<"3">>),
      as_bytes(<<"_">>), as_bytes(<<" ">>), as_bytes(<<";">>), as_bytes(<<"$">>) }

RECURSIVE Concat(_)
Concat(ss) == IF Len(ss) = 0 THEN <<>> ELSE ss[1] \o Concat(Tail(ss))

ChunkInputs == {Concat(cs) : cs \in SeqsUpTo(KeywordChunks, MaxChunks)}

\* a digit run of value usize::MAX + 1
OverMax == as_bytes(<<"1", "8", "4", "4", "6", "7", "4", "4", "0", "7",
                      "3", "7", "0", "9", "5", "5", "1", "6", "1", "6">>)
\* twenty-two digits of value 7
LongSeven == as_bytes(<<"0", "0", "0", "0", "0", "0", "0", "0", "0", "0", "0",
                        "0", "0", "0", "0", "0", "0", "0", "0", "0", "0", "7">>)

\* the inputs of the tests of lexer.rs
TestOperators == as_bytes(<<"+", "/", "*", "(", "-", ")">>)
TestProgram ==
    as_bytes(<<"a", " ", "=", " ", "3", ";", " ", "b", " ", "=", " ", "2", ";", " ",
               "c", " ", "=", " ", "a", " ", "*", " ", "b", ";", " ",
               "r", "e", "t", "u", "r", "n", " ", "c", ";">>)
TestError ==
    as_bytes(<<"1", " ", "$", " ", "2", " ", "*", " ", "3", " ", "-", " ", "-", "1", "0">>)

NamedInputs ==
    { TestOperators, TestProgram, TestError,
      as_bytes(<<"1", "2", "3", "a", "b", "c">>),
      as_bytes(<<"0", "0", "7">>),
      as_bytes(<<"a", " ", "=", " ", "3", ";">>),
      as_bytes(<<"1", " ", "$", " ", "2">>),
      as_bytes(<<"i", "n", "t", "e", "r", "n", "a", "l">>),
      as_bytes(<<"r", "e", "t", "u", "r", "n", "i", "n", "g">>),
      as_bytes(<<"R", "E", "T", "U", "R", "N">>),
      as_bytes(<<"I", "n", "t">>),
      as_bytes(<<"i", "n", "t", " ", "x", "\t", "=", "\n", "1", "0", ";">>),
      <<47, 58, 64, 91, 96, 123>>,
      as_bytes(<<"z", "A", "{">>),
      as_bytes(<<"(", "a", ")", "*", "2", "-", "b", "/", "4">>),
      as_bytes(<<" ", "a", " ", "\n", "\t", "=", "=", "1", "2", " ", " ">>),
      <<97, 195, 169>>,
      OverMax, LongSeven,
      as_bytes(<<"9">>) \o OverMax,
      as_bytes(<<"x", "=">>) \o OverMax \o as_bytes(<<";">>),
      OverMax \o as_bytes(<<"a", "b">>),
      as_bytes(<<"1", " ">>) \o OverMax \o as_bytes(<<"$">>),
      OverMax \o as_bytes(<<" ", "$">>),
      LongSeven \o as_bytes(<<"_", "+">>),
      as_bytes(<<"i", "n", "t", " ", "i", "n", "t", "3", " ", "r", "e", "t", "u", "r", "n",
                 " ", "r", "e", "t", "u", "r", "n", "s", ";", "i", "n", "t", "_">>) }

Inputs == ShortInputs \cup ChunkInputs \cup NamedInputs

(***************************************************************************)
(* The state machine.  pc is "idle" between calls of lex, "lex" at the     *)
(* head of its while loop, "panicked" once an unwrap has failed.           *)
(* returned holds the values the calls of lex have returned, in order.     *)
(* iters counts the iterations of the while loop begun in the current call *)
(* of lex.  scans holds, for every earlier Lexer built from the same       *)
(* input, what its first call of lex ended with.                           *)
(***************************************************************************)
Self == [input |-> input, pos |-> pos, tokens |-> tokens]

Init ==
    /\ input \in Inputs
    /\ pos = new(input).pos
    /\ tokens = new(input).tokens
    /\ pc = "idle"
    /\ returned = <<>>
    /\ iters = 0
    /\ scans = <<>>

\* mutant: every call of lex scans again from the start of the input
CallRescanning ==
    /\ pc = "idle"
    /\ Len(returned) < MaxCalls
    /\ pc' = "lex"
    /\ pos' = 0
    /\ iters' = 0
    /\ UNCHANGED <<input, tokens, returned, scans>>

\* the caller calls lexer.lex()
Call ==
    /\ pc = "idle"
    /\ Len(returned) < MaxCalls
    /\ pc' = "lex"
    /\ iters' = 0
    /\ UNCHANGED <<input, pos, tokens, returned, scans>>

AtArm(arm) ==
    /\ pc = "lex"
    /\ pos < Len(input)
    /\ Arm(input[pos + 1]) = arm

Continue(self) ==
    /\ pos' = self.pos
    /\ tokens' = self.tokens
    /\ iters' = iters + 1
    /\ UNCHANGED <<input, pc, returned, scans>>

LexPlus == AtArm("lex_plus") /\ Continue(lex_plus(Self))
LexMinus == AtArm("lex_minus") /\ Continue(lex_minus(Self))
LexAsterisk == AtArm("lex_asterisk") /\ Continue(lex_asterisk(Self))
LexSlash == AtArm("lex_slash") /\ Continue(lex_slash(Self))
LexLParen == AtArm("lex_lparen") /\ Continue(lex_lparen(Self))
LexRParen == AtArm("lex_rparen") /\ Continue(lex_rparen(Self))
LexSemicolon == AtArm("lex_semicolon") /\ Continue(lex_semicolon(Self))
LexAssignment == AtArm("lex_assignment") /\ Continue(lex_assignment(Self))

LexNumber ==
    /\ AtArm("lex_number")
    /\ ~lex_number_panics(Self)
    /\ Continue(lex_number(Self))

\* parse() returned Err(PosOverflow) and unwrap() panicked
LexNumberPanic ==
    /\ AtArm("lex_number")
    /\ lex_number_panics(Self)
    /\ pc' = "panicked"
    /\ iters' = iters + 1
    /\ UNCHANGED <<input, pos, tokens, returned, scans>>

LexIdentifier ==
    /\ AtArm("lex_identifier")
    /\ Continue(lex_identifier(Self, reserve_keywords))

SkipSpaces == AtArm("skip_spaces") /\ Continue(skip_spaces(Self))

\* return Err(LexError::invalid_char(..))
LexInvalidChar ==
    /\ AtArm("invalid_char")
    /\ returned' = Append(returned, lex_error(Self))
    /\ pc' = "idle"
    /\ iters' = iters + 1
    /\ UNCHANGED <<input, pos, tokens, scans>>

\* the loop condition fails: Ok(&self.tokens)
LexOk ==
    /\ pc = "lex"
    /\ ~(pos < Len(input))
    /\ returned' = Append(returned, lex_ok(Self))
    /\ pc' = "idle"
    /\ UNCHANGED <<input, pos, tokens, iters, scans>>

\* the scan of this Lexer is over (its first call of lex returned or
\* panicked); the caller builds another Lexer from the same input text
NewLexer ==
    /\ pc = "panicked" \/ (pc = "idle" /\ returned # <<>>)
    /\ Len(scans) + 1 < MaxLexers
    /\ scans' = Append(scans, IF pc = "panicked" THEN Panic ELSE returned[1])
    /\ pos' = new(input).pos
    /\ tokens' = new(input).tokens
    /\ pc' = "idle"
    /\ returned' = <<>>
    /\ iters' = 0
    /\ UNCHANGED input

Next ==
    \/ NewLexer
    \/ Call
    \/ LexPlus
    \/ LexMinus
    \/ LexAsterisk
    \/ LexSlash
    \/ LexLParen
    \/ LexRParen
    \/ LexNumber
    \/ LexNumberPanic
    \/ LexIdentifier
    \/ LexSemicolon
    \/ LexAssignment
    \/ SkipSpaces
    \/ LexInvalidChar
    \/ LexOk

Spec == Init /\ [][Next]_vars

TypeOK ==
    /\ pos \in 0..Len(input)
    /\ pc \in {"idle", "lex", "panicked"}
    /\ Len(returned) <= MaxCalls
    /\ iters \in 0..Len(input)
    /\ Len(scans) < MaxLexers

(***************************************************************************)
(* The tests of lexer.rs, on the function lex.                             *)
(***************************************************************************)
test_lexer ==
    /\ lex(new(TestOperators)).result =
         [kind |-> "Ok", tokens |->
            << new_token(TokenKind("Plus"), 0, 1), new_token(TokenKind("Slash"), 1, 2),
               new_token(TokenKind("Asterisk"), 2, 3), new_token(TokenKind("LParen"), 3, 4),
               new_token(TokenKind("Minus"), 4, 5), new_token(TokenKind("RParen"), 5, 6) >>]
    /\ lex(new(TestProgram)).result =
         [kind |-> "Ok", tokens |->
            << new_token(Identifier(<<97>>), 0, 1), new_token(TokenKind("Assignment"), 2, 3),
               new_token(Number(3), 4, 5), new_token(TokenKind("Semicolon"), 5, 6),
               new_token(Identifier(<<98>>), 7, 8), new_token(TokenKind("Assignment"), 9, 10),
               new_token(Number(2), 11, 12), new_token(TokenKind("Semicolon"), 12, 13),
               new_token(Identifier(<<99>>), 14, 15), new_token(TokenKind("Assignment"), 16, 17),
               new_token(Identifier(<<97>>), 18, 19), new_token(TokenKind("Asterisk"), 20, 21),
               new_token(Identifier(<<98>>), 22, 23), new_token(TokenKind("Semicolon"), 23, 24),
               new_token(TokenKind("Return"), 25, 31), new_token(Identifier(<<99>>), 32, 33),
               new_token(TokenKind("Semicolon"), 33, 34) >>]

test_lexer_error ==
    lex(new(TestError)).result = invalid_char(36, <<2, 3>>)

(***************************************************************************)
(* Vocabulary of the properties.                                           *)
(***************************************************************************)
Whitespace == {32, 9, 10}
Letters == (65..90) \cup (97..122)
Digits == 48..57
\* the eight operator bytes, digits, ASCII letters, '_', space, tab, newline
RecognizedBytes == OperatorBytes \cup Digits \cup Letters \cup {95} \cup Whitespace

AllRecognized(in) == \A i \in 1..Len(in) : in[i] \in RecognizedBytes

\* 0-based index of the first unrecognized byte
FirstUnrecognized(in) ==
    CHOOSE i \in 0..(Len(in) - 1) :
        /\ in[i + 1] \notin RecognizedBytes
        /\ \A j \in 0..(i - 1) : in[j + 1] \in RecognizedBytes

\* the call of lex has ended by a return
HasReturned == pc = "idle" /\ returned # <<>>
\* the call of lex has ended, by a return or by a panic
HasEnded == HasReturned \/ pc = "panicked"
LastReturned == returned[Len(returned)]

\* the tokens whose span holds byte index i
Covering(toks, i) == {k \in 1..Len(toks) : toks[k].loc[1] <= i /\ i < toks[k].loc[2]}

StrictSpanOrder(toks) ==
    /\ \A k \in 1..Len(toks) : toks[k].loc[1] < toks[k].loc[2]
    /\ \A k \in 1..(Len(toks) - 1) : toks[k].loc[2] <= toks[k + 1].loc[1]

TilesInput(toks, in) ==
    /\ \A k \in 1..Len(toks) : toks[k].loc[2] <= Len(in)
    /\ \A i \in 0..(Len(in) - 1) :
          IF in[i + 1] \in Whitespace
          THEN Covering(toks, i) = {}
          ELSE Cardinality(Covering(toks, i)) = 1

(***************************************************************************)
(* C1: for an input of recognized bytes only, every call of lex returns Ok *)
(* (it does not end any other way), and the tokens it returns are in       *)
(* strictly increasing span order, with disjoint spans that cover every    *)
(* non-whitespace byte exactly once and no whitespace byte.                *)
(***************************************************************************)
C1_RecognizedInputTiled ==
    AllRecognized(input) =>
        /\ pc # "panicked"
        /\ \A k \in 1..Len(returned) :
              /\ returned[k].kind = "Ok"
              /\ StrictSpanOrder(returned[k].tokens)
              /\ TilesInput(returned[k].tokens, input)

(***************************************************************************)
(* C2: for an input with an unrecognized byte, every call of lex returns   *)
(* Err(InvalidChar(c)) located at [i, i+1), i the smallest index of an     *)
(* unrecognized byte and c the byte there; the bytes after i do not        *)
(* matter (the result is that of the input cut after i).                   *)
(***************************************************************************)
C2_FirstInvalidByteReported ==
    ~AllRecognized(input) =>
        LET i == FirstUnrecognized(input) IN
        /\ pc # "panicked"
        /\ \A k \in 1..Len(returned) :
              /\ returned[k] = invalid_char(input[i + 1], <<i, i + 1>>)
              /\ returned[k] = lex(new(SubSeq(input, 1, i + 1))).result

(***************************************************************************)
(* C3: all or nothing: once lex has returned an error, the caller can      *)
(* observe no token recognized before the invalid byte (the public token   *)
(* list of the Lexer is empty).                                            *)
(***************************************************************************)
C3_NoTokensBesideError ==
    (HasReturned /\ LastReturned.kind = "Err") => tokens = <<>>

\* the end of the maximal run of bytes of class that starts at index p
RECURSIVE SpanEnd(_, _, _)
SpanEnd(in, p, class) ==
    IF p < Len(in) /\ in[p + 1] \in class THEN SpanEnd(in, p + 1, class) ELSE p

IdentifierKinds == {"Identifier", "Int", "Return"}
WordBytes == Letters \cup Digits \cup {95}

\* the tokens whose span meets [s, e)
Meeting(toks, s, e) == {k \in 1..Len(toks) : toks[k].loc[1] < e /\ s < toks[k].loc[2]}

\* the starts of the maximal runs of letters, digits and '_' that begin
\* with a letter or '_'
WordStarts(in) ==
    {s \in 0..(Len(in) - 1) :
        /\ in[s + 1] \in Letters \cup {95}
        /\ s = 0 \/ in[s] \notin WordBytes}

KeywordInt == <<105, 110, 116>>
KeywordReturn == <<114, 101, 116, 117, 114, 110>>

ExpectedWordToken(run, s, e) ==
    IF run = KeywordInt THEN [kind |-> "Int", loc |-> <<s, e>>]
    ELSE IF run = KeywordReturn THEN [kind |-> "Return", loc |-> <<s, e>>]
    ELSE [kind |-> "Identifier", name |-> run, loc |-> <<s, e>>]

WordsDecided(toks, in, upto) ==
    \A s \in WordStarts(in) :
        s < upto =>
            LET e == SpanEnd(in, s, WordBytes) IN
            \E k \in 1..Len(toks) :
                /\ Meeting(toks, s, e) = {k}
                /\ toks[k] = ExpectedWordToken(SubSeq(in, s + 1, e), s, e)

(***************************************************************************)
(* C4: every maximal run of letters, digits and '_' that starts with a     *)
(* letter or '_' and that the scan has consumed is exactly one token       *)
(* spanning the whole run: Int iff the run is "int", Return iff it is      *)
(* "return", Identifier(run) otherwise (keyword as a prefix, other case).  *)
(***************************************************************************)
C4_KeywordOnWholeRun ==
    /\ WordsDecided(tokens, input, pos)
    /\ \A k \in 1..Len(returned) :
          returned[k].kind = "Ok" => WordsDecided(returned[k].tokens, input, Len(input))

IsPrefix(a, b) == Len(a) <= Len(b) /\ SubSeq(b, 1, Len(a)) = a

\* a scan returned Ok on an input holding a keyword run, a longer run that
\* starts with a keyword, and a keyword in another case
C4_Witness ==
    /\ HasReturned
    /\ LastReturned.kind = "Ok"
    /\ \E k \in 1..Len(tokens) : tokens[k].kind \in {"Int", "Return"}
    /\ \E k \in 1..Len(tokens) :
          /\ tokens[k].kind = "Identifier"
          /\ Len(tokens[k].name) > 3
          /\ IsPrefix(KeywordInt, tokens[k].name) \/ IsPrefix(KeywordReturn, tokens[k].name)

(***************************************************************************)
(* C5: maximal munch: in the tokens of a successful lex no two abutting    *)
(* consecutive tokens are both Number or both identifier-run tokens; a     *)
(* Number span has no digit directly before or after it; an identifier-run *)
(* span has no letter, digit or '_' directly after it and no letter or '_' *)
(* directly before it.                                                     *)
(***************************************************************************)
MaximalMunch(toks, in) ==
    /\ \A k \in 1..Len(toks) :
          LET s == toks[k].loc[1]
              e == toks[k].loc[2]
          IN  /\ toks[k].kind = "Number" =>
                    /\ s = 0 \/ in[s] \notin Digits
                    /\ e = Len(in) \/ in[e + 1] \notin Digits
              /\ toks[k].kind \in IdentifierKinds =>
                    /\ s = 0 \/ in[s] \notin Letters \cup {95}
                    /\ e = Len(in) \/ in[e + 1] \notin WordBytes
    /\ \A k \in 1..(Len(toks) - 1) :
          toks[k].loc[2] = toks[k + 1].loc[1] =>
              /\ ~(toks[k].kind = "Number" /\ toks[k + 1].kind = "Number")
              /\ ~(toks[k].kind \in IdentifierKinds /\ toks[k + 1].kind \in IdentifierKinds)

C5_MaximalMunch ==
    \A k \in 1..Len(returned) :
        returned[k].kind = "Ok" => MaximalMunch(returned[k].tokens, input)

\* a scan returned Ok with a Number of two digits or more that abuts an
\* identifier-run token of two bytes or more
C5_Witness ==
    /\ HasReturned
    /\ LastReturned.kind = "Ok"
    /\ \E k \in 1..(Len(tokens) - 1) :
          /\ tokens[k].kind = "Number"
          /\ tokens[k].loc[2] - tokens[k].loc[1] >= 2
          /\ tokens[k + 1].kind \in IdentifierKinds
          /\ tokens[k + 1].loc[1] = tokens[k].loc[2]
          /\ tokens[k + 1].loc[2] - tokens[k + 1].loc[1] >= 2

\* base-10 value of a digit string
RECURSIVE DecimalValue(_)
DecimalValue(run) ==
    IF Len(run) = 0 THEN 0
    ELSE DecimalValue(SubSeq(run, 1, Len(run) - 1)) * 10 + (run[Len(run)] - 48)

\* the starts of the digit runs that begin a token and are directly
\* followed by a letter or '_'
NumberThenWordStarts(in) ==
    {s \in 0..(Len(in) - 1) :
        /\ in[s + 1] \in Digits
        /\ s = 0 \/ in[s] \notin WordBytes
        /\ LET e == SpanEnd(in, s, Digits) IN e < Len(in) /\ in[e + 1] \in Letters \cup {95}}

(***************************************************************************)
(* C6: a digit run directly followed by a letter or '_' is scanned as two  *)
(* abutting tokens, Number(value of the digits) over the digits and then   *)
(* an identifier-run token that starts where the digits end; it is never   *)
(* one merged token, never one token per digit, and the scan never stops   *)
(* (error or otherwise) inside it.                                         *)
(***************************************************************************)
C6_NumberThenIdentifier ==
    \A s \in NumberThenWordStarts(input) :
        LET e == SpanEnd(input, s, Digits)
            f == SpanEnd(input, e, WordBytes)
        IN  /\ (pos >= s /\ pos < f) => ~HasEnded
            /\ pos > s =>
                  \E k \in 1..Len(tokens) :
                      /\ Meeting(tokens, s, e) = {k}
                      /\ tokens[k] = [kind |-> "Number",
                                      num |-> DecimalValue(SubSeq(input, s + 1, e)),
                                      loc |-> <<s, e>>]
                      /\ pos > e =>
                            /\ Meeting(tokens, e, f) = {k + 1}
                            /\ tokens[k + 1].kind \in IdentifierKinds
                            /\ tokens[k + 1].loc = <<e, f>>

OperatorKind(b) ==
    CASE b = 43 -> "Plus" [] b = 45 -> "Minus" [] b = 42 -> "Asterisk" [] b = 47 -> "Slash"
      [] b = 40 -> "LParen" [] b = 41 -> "RParen" [] b = 59 -> "Semicolon"
      [] b = 61 -> "Assignment"

OperatorsAtomic(toks, in) ==
    \A i \in 0..(Len(in) - 1) :
        in[i + 1] \in OperatorBytes =>
            \E k \in 1..Len(toks) :
                /\ Covering(toks, i) = {k}
                /\ toks[k] = [kind |-> OperatorKind(in[i + 1]), loc |-> <<i, i + 1>>]

(***************************************************************************)
(* C7: operator atomicity: in the tokens of a successful lex every         *)
(* occurrence at index i of + - * / ( ) ; = is exactly one token, of the   *)
(* kind of that byte, with span [i, i+1), whatever its neighbours; and a   *)
(* loop step at an operator byte appends one token and advances the        *)
(* cursor by exactly 1.                                                    *)
(***************************************************************************)
C7_OperatorAtomicity ==
    /\ [](\A k \in 1..Len(returned) :
             returned[k].kind = "Ok" => OperatorsAtomic(returned[k].tokens, input))
    /\ [][(pc = "lex" /\ pos < Len(input) /\ input[pos + 1] \in OperatorBytes) =>
             /\ pos' = pos + 1
             /\ Len(tokens') = Len(tokens) + 1]_vars

\* a scan returned Ok on an input with two operator bytes side by side,
\* '=' '=' among them
C7_Witness ==
    /\ HasReturned
    /\ LastReturned.kind = "Ok"
    /\ \E i \in 1..(Len(input) - 1) : input[i] = 61 /\ input[i + 1] = 61
    /\ \E i \in 1..(Len(input) - 1) :
          input[i] \in OperatorBytes /\ input[i + 1] \in OperatorBytes /\ input[i] # input[i + 1]

(***************************************************************************)
(* C8: every failure of a scan is reported as a lexical error: every call  *)
(* of lex, on every input (a digit run above the maximum of usize          *)
(* included), completes and returns Ok or Err with one of the two declared *)
(* kinds; it never ends any other way.                                     *)
(***************************************************************************)
C8_EveryFailureReported ==
    /\ pc # "panicked"
    /\ \A k \in 1..Len(returned) :
          \/ returned[k].kind = "Ok"
          \/ returned[k].kind = "Err" /\ returned[k].error \in {"InvalidChar", "Eof"}

\* the tokens shifted by the offset of their segment
Shifted(toks, off) ==
    [k \in 1..Len(toks) |->
        [toks[k] EXCEPT !.loc = <<toks[k].loc[1] + off, toks[k].loc[2] + off>>]]

\* the outcome put together from independent scans of the maximal
\* whitespace-free segments of in from index p on
RECURSIVE BySegments(_, _)
BySegments(in, p) ==
    LET s == SpanEnd(in, p, Whitespace)
        e == SpanEnd(in, s, RecognizedBytes \ Whitespace)
    IN  IF s = Len(in) THEN [kind |-> "Ok", tokens |-> <<>>]
        ELSE LET seg == lex(new(SubSeq(in, s + 1, e))).result IN
             IF seg.kind # "Ok" THEN seg
             ELSE LET rest == BySegments(in, e) IN
                  IF rest.kind # "Ok" THEN rest
                  ELSE [kind |-> "Ok", tokens |-> Shifted(seg.tokens, s) \o rest.tokens]

(***************************************************************************)
(* C9: whitespace transparency: no token covers a space, tab or newline,   *)
(* and for an input of recognized bytes the outcome of lex is the one put  *)
(* together from scans of the maximal whitespace-free segments on their    *)
(* own: their tokens, in order, each span shifted by the offset of its     *)
(* segment (and lex ends without a result exactly when a segment does).    *)
(***************************************************************************)
C9_WhitespaceTransparency ==
    /\ \A i \in 0..(Len(input) - 1) :
          input[i + 1] \in Whitespace => Covering(tokens, i) = {}
    /\ AllRecognized(input) =>
          /\ \A k \in 1..Len(returned) : returned[k] = BySegments(input, 0)
          /\ pc = "panicked" => BySegments(input, 0) = Panic

\* a scan returned Ok with tokens on both sides of a whitespace run of two
\* bytes or more, on an input that also starts and ends with whitespace
C9_Witness ==
    /\ HasReturned
    /\ LastReturned.kind = "Ok"
    /\ Len(input) > 0
    /\ input[1] \in Whitespace
    /\ input[Len(input)] \in Whitespace
    /\ \E k \in 1..(Len(tokens) - 1) : tokens[k + 1].loc[1] - tokens[k].loc[2] >= 2

(***************************************************************************)
(* C10: lex never returns Err(Eof): an error it returns is InvalidChar at  *)
(* a byte inside the input, and a scan whose cursor has reached the end of *)
(* the input (a run that ends at the buffer boundary, an empty input) has  *)
(* returned Ok.                                                            *)
(***************************************************************************)
C10_EofNeverProduced ==
    /\ \A k \in 1..Len(returned) :
          returned[k].kind = "Err" =>
              /\ returned[k].error = "InvalidChar"
              /\ returned[k].loc[1] < Len(input)
    /\ (HasReturned /\ pos = Len(input)) => LastReturned.kind = "Ok"

\* a scan returned Ok after a run of two bytes or more that ends at the end
\* of the input
C10_Witness ==
    /\ HasReturned
    /\ LastReturned.kind = "Ok"
    /\ Len(input) >= 2
    /\ \/ {input[Len(input) - 1], input[Len(input)]} \subseteq Digits
       \/ {input[Len(input) - 1], input[Len(input)]} \subseteq Letters
       \/ {input[Len(input) - 1], input[Len(input)]} \subseteq Whitespace

\* what the first call of lex on the current Lexer ended with
FirstOutcome == IF pc = "panicked" THEN Panic ELSE returned[1]

LocInInput(loc) == loc[1] <= loc[2] /\ loc[2] <= Len(input)

(***************************************************************************)
(* C12: location invariant: in every reachable state the cursor is at most *)
(* the input length, and every token of the token list, every token of a   *)
(* returned token sequence and the location of every returned error        *)
(* satisfy start <= end <= input length.                                   *)
(***************************************************************************)
C12_LocationInvariant ==
    /\ pos <= Len(input)
    /\ \A k \in 1..Len(tokens) : LocInInput(tokens[k].loc)
    /\ \A k \in 1..Len(returned) :
          IF returned[k].kind = "Err"
          THEN LocInInput(returned[k].loc)
          ELSE \A j \in 1..Len(returned[k].tokens) : LocInInput(returned[k].tokens[j].loc)

\* lex returned the error of an invalid last byte of the input, after a
\* token of a run of two bytes or more
C12_Witness ==
    /\ HasReturned
    /\ LastReturned.kind = "Err"
    /\ LastReturned.loc = <<Len(input) - 1, Len(input)>>
    /\ \E k \in 1..Len(tokens) : tokens[k].loc[2] - tokens[k].loc[1] >= 2

\* the value of the digit run fits usize
FitsUsize(run) == ~ParseOverflows(run)

\* the starts of the maximal digit runs
DigitRunStarts(in) ==
    {s \in 0..(Len(in) - 1) : in[s + 1] \in Digits /\ (s = 0 \/ in[s] \notin Digits)}

\* the digit run that starts at s is exactly one token, Number(its value)
NumberOverRun(toks, in, s) ==
    LET e == SpanEnd(in, s, Digits) IN
    \E k \in 1..Len(toks) :
        /\ Meeting(toks, s, e) = {k}
        /\ toks[k] = [kind |-> "Number",
                      num |-> DecimalValue(SubSeq(in, s + 1, e)),
                      loc |-> <<s, e>>]

(***************************************************************************)
(* C13, as claimed: every maximal digit run that the scan has consumed and *)
(* whose value fits usize is exactly one Number(v) token spanning the      *)
(* whole run, v the base-10 value of its digits.                           *)
(***************************************************************************)
C13_EveryDigitRunIsNumber ==
    \A s \in DigitRunStarts(input) :
        LET e == SpanEnd(input, s, Digits) IN
        (pos >= e /\ FitsUsize(SubSeq(input, s + 1, e))) => NumberOverRun(tokens, input, s)

(***************************************************************************)
(* C13, amended: every maximal digit run that is not directly preceded by  *)
(* a letter or '_' (a run that starts a token), that the scan has consumed *)
(* and whose value fits usize is exactly one Number(v) token spanning the  *)
(* whole run, v the base-10 value of its digits: leading zeros are in the  *)
(* span and do not change the value.                                       *)
(***************************************************************************)
C13_LeadingDigitRunIsNumber ==
    /\ \A s \in DigitRunStarts(input) :
          LET e == SpanEnd(input, s, Digits) IN
          (pos >= e /\ FitsUsize(SubSeq(input, s + 1, e)) /\ (s = 0 \/ input[s] \notin WordBytes))
              => NumberOverRun(tokens, input, s)
    /\ \A k \in 1..Len(returned) :
          returned[k].kind = "Ok" =>
              \A s \in DigitRunStarts(input) :
                  (s = 0 \/ input[s] \notin WordBytes) => NumberOverRun(returned[k].tokens, input, s)

\* the scan has made a Number of a run of three digits or more that starts
\* with a zero and has a value above zero
C13_Witness ==
    \E k \in 1..Len(tokens) :
        /\ tokens[k].kind = "Number"
        /\ tokens[k].loc[2] - tokens[k].loc[1] >= 3
        /\ input[tokens[k].loc[1] + 1] = 48
        /\ tokens[k].num > 0

\* an iteration of the while loop of lex starts in this state
AtLoopBody == pc = "lex" /\ pos < Len(input)

(***************************************************************************)
(* C14: progress and termination: every iteration of the scan loop either  *)
(* returns an error or moves the cursor forward by at least 1 and goes on; *)
(* so a call of lex makes at most input-length iterations, and a call that *)
(* returns Ok ends with the cursor at the input length.                    *)
(***************************************************************************)
C14_ProgressAndTermination ==
    /\ [][AtLoopBody =>
            \/ pc' = "lex" /\ pos' >= pos + 1
            \/ /\ pc' = "idle"
               /\ Len(returned') = Len(returned) + 1
               /\ returned'[Len(returned')].kind = "Err"]_vars
    /\ [](iters <= Len(input))
    /\ []((HasReturned /\ LastReturned.kind = "Ok") => pos = Len(input))

\* the bytes of the input in the span of the token are the text of the token
LexemeOf(tok, in) ==
    LET s == tok.loc[1]
        e == tok.loc[2]
        text == SubSeq(in, s + 1, e)
    IN  CASE tok.kind = "Identifier" ->
               /\ tok.name = text
               /\ Len(text) >= 1
               /\ text[1] \in Letters \cup {95}
               /\ \A i \in 1..Len(text) : text[i] \in WordBytes
          [] tok.kind = "Int" -> text = KeywordInt /\ e - s = 3
          [] tok.kind = "Return" -> text = KeywordReturn /\ e - s = 6
          [] tok.kind = "Number" ->
               Len(text) >= 1 /\ \A i \in 1..Len(text) : text[i] \in Digits
          [] OTHER ->
               /\ Len(text) = 1
               /\ text[1] \in OperatorBytes
               /\ tok.kind = OperatorKind(text[1])

(***************************************************************************)
(* C15: lexeme consistency: for every token lex has recognized or          *)
(* returned, the bytes of the input in its span are the text of the token: *)
(* the payload of an Identifier is input[start..end], starts with a letter *)
(* or '_' and holds only letters, digits and '_'; the span of Int is "int" *)
(* (length 3), the span of Return is "return" (length 6).                  *)
(***************************************************************************)
C15_LexemeConsistency ==
    /\ \A k \in 1..Len(tokens) : LexemeOf(tokens[k], input)
    /\ \A k \in 1..Len(returned) :
          returned[k].kind = "Ok" =>
              \A j \in 1..Len(returned[k].tokens) : LexemeOf(returned[k].tokens[j], input)

\* lex returned Ok with a keyword token and an Identifier of three bytes
\* or more that holds a digit or a '_'
C15_Witness ==
    /\ HasReturned
    /\ LastReturned.kind = "Ok"
    /\ \E k \in 1..Len(tokens) : tokens[k].kind \in {"Int", "Return"}
    /\ \E k \in 1..Len(tokens) :
          /\ tokens[k].kind = "Identifier"
          /\ Len(tokens[k].name) >= 3
          /\ \E i \in 1..Len(tokens[k].name) : tokens[k].name[i] \in Digits \cup {95}

(***************************************************************************)
(* C16: calling lex again on the same Lexer is idempotent: every later     *)
(* call returns what the first call returned; after an Ok return the       *)
(* cursor is at the input length and the token list is the returned one    *)
(* (nothing appended or duplicated); after an Err return the cursor stays  *)
(* at the invalid byte; and once lex has returned, later calls change      *)
(* neither the cursor nor the token list.                                  *)
(***************************************************************************)
C16_LexIdempotent ==
    /\ [](\A k \in 1..Len(returned) : returned[k] = returned[1])
    /\ [](\A k \in 1..Len(returned) :
             returned[k].kind = "Ok" => (pos = Len(input) /\ tokens = returned[k].tokens))
    /\ [](\A k \in 1..Len(returned) :
             returned[k].kind = "Err" => pos = returned[k].loc[1])
    /\ [][(returned # <<>> /\ returned' # <<>>) => (pos' = pos /\ tokens' = tokens)]_vars

\* a second call of lex on the same Lexer has returned Ok with two tokens
\* or more
C16_Witness ==
    /\ pc = "idle"
    /\ Len(returned) >= 2
    /\ returned[2].kind = "Ok"
    /\ Len(returned[2].tokens) >= 2

====
